---- MODULE Spec2Model ----
(***************************************************************************)
(* Model of the parallel Mandelbrot renderer of src/src/main.rs.           *)
(*                                                                         *)
(* The program's numbers are IEEE-754 binary64 values (f64) and machine    *)
(* integers (usize, u32, u8).  An f64 is modelled exactly: a finite value  *)
(* is sign * m * 2^e with m a natural number of at most 53 bits, kept as a *)
(* little-endian sequence of 14-bit limbs, and every arithmetic operation  *)
(* computes the exact result and rounds it to nearest, ties to even, as    *)
(* the hardware does.  Strings are sequences of one-character strings.     *)
(***************************************************************************)
EXTENDS Integers, Sequences, FiniteSets, TLC

Max(a, b) == IF a >= b THEN a ELSE b
Min(a, b) == IF a <= b THEN a ELSE b

(***************************************************************************)
(* Natural numbers of any size: little-endian limbs, no leading zero limb. *)
(***************************************************************************)
LimbBits == 7 + 7
Base == 128 * 128

Pow2Table == <<1, 2, 4, 8, 16, 32, 64, 128, 256, 512, 1024, 2048, 4096, 8192, 16384>>
Pow2(k) == Pow2Table[k + 1]

RECURSIVE BNTrim(_)
BNTrim(a) ==
    IF a = << >> THEN a
    ELSE IF a[Len(a)] # 0 THEN a
    ELSE BNTrim(SubSeq(a, 1, Len(a) - 1))

RECURSIVE BNFromNat(_)
BNFromNat(n) == IF n = 0 THEN << >> ELSE <<n % Base>> \o BNFromNat(n \div Base)

BNLimb(a, i) == IF i <= Len(a) THEN a[i] ELSE 0

RECURSIVE BNAddC(_, _, _, _)
BNAddC(a, b, i, c) ==
    IF i > Len(a) /\ i > Len(b)
    THEN (IF c = 0 THEN << >> ELSE <<c>>)
    ELSE LET t == BNLimb(a, i) + BNLimb(b, i) + c
         IN  <<t % Base>> \o BNAddC(a, b, i + 1, t \div Base)

BNAdd(a, b) == BNAddC(a, b, 1, 0)

\* a - b for a >= b
RECURSIVE BNSubC(_, _, _, _)
BNSubC(a, b, i, c) ==
    IF i > Len(a) THEN << >>
    ELSE LET t == a[i] - BNLimb(b, i) - c
         IN  IF t < 0 THEN <<t + Base>> \o BNSubC(a, b, i + 1, 1)
                      ELSE <<t>> \o BNSubC(a, b, i + 1, 0)

BNSub(a, b) == BNTrim(BNSubC(a, b, 1, 0))

\* -1, 0, 1 as a < b, a = b, a > b
RECURSIVE BNCmpFrom(_, _, _)
BNCmpFrom(a, b, i) ==
    IF i = 0 THEN 0
    ELSE IF a[i] < b[i] THEN -1
    ELSE IF a[i] > b[i] THEN 1
    ELSE BNCmpFrom(a, b, i - 1)

BNCmp(a, b) ==
    IF Len(a) < Len(b) THEN -1
    ELSE IF Len(a) > Len(b) THEN 1
    ELSE BNCmpFrom(a, b, Len(a))

\* a * d + c for one limb d and a carry c
RECURSIVE BNMulSmallC(_, _, _, _)
BNMulSmallC(a, d, i, c) ==
    IF i > Len(a)
    THEN (IF c = 0 THEN << >> ELSE <<c>>)
    ELSE LET t == a[i] * d + c
         IN  <<t % Base>> \o BNMulSmallC(a, d, i + 1, t \div Base)

BNMulSmall(a, d) == IF d = 0 THEN << >> ELSE BNMulSmallC(a, d, 1, 0)

RECURSIVE BNZeroLimbs(_)
BNZeroLimbs(q) == IF q = 0 THEN << >> ELSE <<0>> \o BNZeroLimbs(q - 1)

\* a * b, by the halves of b
RECURSIVE BNMul(_, _)
BNMul(a, b) ==
    IF a = << >> \/ b = << >> THEN << >>
    ELSE IF Len(b) = 1 THEN BNMulSmall(a, b[1])
    ELSE LET h == Len(b) \div 2
             lo == BNMul(a, BNTrim(SubSeq(b, 1, h)))
             hi == BNMul(a, SubSeq(b, h + 1, Len(b)))
         IN  BNAdd(lo, BNZeroLimbs(h) \o hi)

RECURSIVE BitLen(_)
BitLen(x) == IF x = 0 THEN 0 ELSE 1 + BitLen(x \div 2)

BNBitLen(a) == IF a = << >> THEN 0 ELSE LimbBits * (Len(a) - 1) + BitLen(a[Len(a)])

\* a * 2^k
BNShl(a, k) ==
    IF a = << >> THEN a
    ELSE BNZeroLimbs(k \div LimbBits) \o BNMulSmall(a, Pow2(k % LimbBits))

\* floor(a / 2^k)
BNShr(a, k) ==
    LET q == k \div LimbBits
        p == Pow2(k % LimbBits)
        n == Len(a) - q
    IN  IF n <= 0 THEN << >>
        ELSE BNTrim([i \in 1..n |->
                 (a[q + i] \div p) + (BNLimb(a, q + i + 1) % p) * (Base \div p)])

\* bit k of a, bit 0 the lowest
BNBit(a, k) == (BNLimb(a, k \div LimbBits + 1) \div Pow2(k % LimbBits)) % 2

\* the k lowest bits of a are all zero
BNLowZero(a, k) ==
    /\ \A i \in 1..Min(k \div LimbBits, Len(a)) : a[i] = 0
    /\ BNLimb(a, k \div LimbBits + 1) % Pow2(k % LimbBits) = 0

RECURSIVE TrailingZeros(_)
TrailingZeros(x) == IF x % 2 = 1 THEN 0 ELSE 1 + TrailingZeros(x \div 2)

RECURSIVE BNTrailingZerosFrom(_, _)
BNTrailingZerosFrom(a, i) ==
    IF a[i] = 0 THEN LimbBits + BNTrailingZerosFrom(a, i + 1)
    ELSE TrailingZeros(a[i])

\* for a # 0
BNTrailingZeros(a) == BNTrailingZerosFrom(a, 1)

\* Long division, the bits of one limb x of the dividend from bit j - 1 down:
\* <<quotient limb, remainder>>.
RECURSIVE BNDivBits(_, _, _, _, _)
BNDivBits(x, d, j, q, r) ==
    IF j = 0 THEN <<q, r>>
    ELSE LET r2 == BNAddC(r, r, 1, (x \div Pow2(j - 1)) % 2)
         IN  IF BNCmp(r2, d) >= 0
             THEN BNDivBits(x, d, j - 1, 2 * q + 1, BNSub(r2, d))
             ELSE BNDivBits(x, d, j - 1, 2 * q, r2)

\* Long division, the limbs hi down to lo of n with r the remainder so far:
\* <<quotient limbs lo..hi, remainder>>.  The range is done as two halves.
RECURSIVE BNDivLimbs(_, _, _, _, _)
BNDivLimbs(n, d, hi, lo, r) ==
    IF hi = lo
    THEN LET s == BNDivBits(n[hi], d, LimbBits, 0, r) IN <<<<s[1]>>, s[2]>>
    ELSE LET mid == (hi + lo + 1) \div 2
             up == BNDivLimbs(n, d, hi, mid, r)
         IN  \* the upper half first: its remainder goes into the lower half
             IF up[1] = << >> THEN up
             ELSE LET down == BNDivLimbs(n, d, mid - 1, lo, up[2])
                  IN  <<down[1] \o up[1], down[2]>>

\* <<floor(n / d), n mod d>> for d # 0
BNDivMod(n, d) ==
    IF n = << >> THEN << << >>, << >> >>
    ELSE LET x == BNDivLimbs(n, d, Len(n), 1, << >>)
         IN  <<BNTrim(x[1]), x[2]>>

\* small naturals back from limbs (only for values below 2^31)
RECURSIVE BNToNat(_)
BNToNat(a) == IF a = << >> THEN 0 ELSE a[1] + Base * BNToNat(Tail(a))

(***************************************************************************)
(* f64: IEEE-754 binary64.  A value is a record k ("fin", "inf", "nan"),   *)
(* s (sign, 1 is negative), m and e: a finite value is (-1)^s * m * 2^e    *)
(* with m odd (m empty and e = 0 for a zero), so equal values have equal   *)
(* records.  Precision, MinExp and MaxBits are the format's: 53 bits of    *)
(* significand, least exponent of a bit 2^-1074, values below 2^1024.      *)
(***************************************************************************)
Precision == 53
MinExp == -1074
MaxBits == 1024

FZero(s) == [k |-> "fin", s |-> s, m |-> << >>, e |-> 0]
FInf(s) == [k |-> "inf", s |-> s, m |-> << >>, e |-> 0]
FNaN == [k |-> "nan", s |-> 0, m |-> << >>, e |-> 0]

IsZero(a) == a.k = "fin" /\ a.m = << >>

\* The value (-1)^s * M * 2^e, which needs no rounding, as an f64
\* (an infinity when it is 2^1024 or more).
FPack(s, M, e) ==
    IF M = << >> THEN FZero(s)
    ELSE IF BNBitLen(M) + e > MaxBits THEN FInf(s)
    ELSE LET tz == BNTrailingZeros(M)
         IN  [k |-> "fin", s |-> s, m |-> BNShr(M, tz), e |-> e + tz]

\* The exact value (-1)^s * M * 2^e has to be cut by sh > 0 bits.
FRoundShift(s, M, e, sh) ==
    LET fl == BNShr(M, sh)
        half == BNBit(M, sh - 1) = 1
        sticky == ~BNLowZero(M, sh - 1)
        up == half /\ (sticky \/ BNBit(fl, 0) = 1)
    IN  FPack(s, IF up THEN BNAdd(fl, <<1>>) ELSE fl, e + sh)

\* Round the exact value (-1)^s * M * 2^e to the nearest f64, ties to even.
FRound(s, M, e) ==
    IF M = << >> THEN FZero(s)
    ELSE LET sh == Max(e + BNBitLen(M) - Precision, MinExp) - e
         IN  IF sh <= 0 THEN FPack(s, M, e) ELSE FRoundShift(s, M, e, sh)

\* The exact value needs no rounding (and is finite).
FExact(M, e) ==
    \/ M = << >>
    \/ LET tz == BNTrailingZeros(M)
       IN  /\ BNBitLen(M) - tz <= Precision
           /\ e + tz >= MinExp
           /\ BNBitLen(M) + e <= MaxBits

\* Round (N / D) * 2^e for N, D # 0: a quotient of at least 56 bits, and below
\* it one bit that says whether anything was left over.
FRoundQuot(s, N, D, e) ==
    LET t == Max(0, BNBitLen(D) + Precision + 3 - BNBitLen(N))
        qr == BNDivMod(BNShl(N, t), D)
        M == BNAddC(qr[1], qr[1], 1, IF qr[2] = << >> THEN 0 ELSE 1)
    IN  FRound(s, M, e - t - 1)

FNeg(a) == IF a.k = "nan" THEN a ELSE [a EXCEPT !.s = 1 - a.s]

\* a + b for finite nonzero a, b whose highest bits are at most GuardGap
\* places apart: align to the lower exponent, add or subtract, round.
FAddNear(a, b) ==
    LET e0 == Min(a.e, b.e)
        A == BNShl(a.m, a.e - e0)
        B == BNShl(b.m, b.e - e0)
        c == BNCmp(A, B)
    IN  IF a.s = b.s THEN FRound(a.s, BNAdd(A, B), e0)
        ELSE IF c = 0 THEN FZero(0)
        ELSE IF c > 0 THEN FRound(a.s, BNSub(A, B), e0)
        ELSE FRound(b.s, BNSub(B, A), e0)

\* The place above the highest bit of a finite nonzero a.
FTop(a) == BNBitLen(a.m) + a.e

GuardGap == Precision + 7

\* a + b for finite nonzero a, b.  An operand that lies wholly more than
\* GuardGap places below the other's highest bit only decides the direction
\* of rounding, which any value that far below decides the same way.
FAddFin(a, b) ==
    IF FTop(b) < FTop(a) - GuardGap
    THEN FAddNear(a, [b EXCEPT !.m = <<1>>, !.e = FTop(a) - GuardGap])
    ELSE IF FTop(a) < FTop(b) - GuardGap
    THEN FAddNear([a EXCEPT !.m = <<1>>, !.e = FTop(b) - GuardGap], b)
    ELSE FAddNear(a, b)

FAdd(a, b) ==
    IF a.k = "nan" \/ b.k = "nan" THEN FNaN
    ELSE IF a.k = "inf" THEN (IF b.k = "inf" /\ b.s # a.s THEN FNaN ELSE a)
    ELSE IF b.k = "inf" THEN b
    ELSE IF IsZero(a) /\ IsZero(b) THEN FZero(IF a.s = b.s THEN a.s ELSE 0)
    ELSE IF IsZero(a) THEN b
    ELSE IF IsZero(b) THEN a
    ELSE FAddFin(a, b)

FSub(a, b) == FAdd(a, FNeg(b))

FMul(a, b) ==
    LET s == (a.s + b.s) % 2
    IN  IF a.k = "nan" \/ b.k = "nan" THEN FNaN
        ELSE IF a.k = "inf" \/ b.k = "inf"
             THEN (IF IsZero(a) \/ IsZero(b) THEN FNaN ELSE FInf(s))
        ELSE IF IsZero(a) \/ IsZero(b) THEN FZero(s)
        ELSE FRound(s, BNMul(a.m, b.m), a.e + b.e)

FDiv(a, b) ==
    LET s == (a.s + b.s) % 2
    IN  IF a.k = "nan" \/ b.k = "nan" THEN FNaN
        ELSE IF a.k = "inf" THEN (IF b.k = "inf" THEN FNaN ELSE FInf(s))
        ELSE IF b.k = "inf" THEN FZero(s)
        ELSE IF IsZero(b) THEN (IF IsZero(a) THEN FNaN ELSE FInf(s))
        ELSE IF IsZero(a) THEN FZero(s)
        ELSE FRoundQuot(s, a.m, b.m, a.e - b.e)

\* -1, 0, 1 for finite or infinite a, b (the two zeros are equal).
FCmp(a, b) ==
    LET sa == IF IsZero(a) THEN 0 ELSE 1 - 2 * a.s
        sb == IF IsZero(b) THEN 0 ELSE 1 - 2 * b.s
        \* the place of the highest bit: orders magnitudes of different size
        top(x) == IF x.k = "inf" THEN MaxBits + 1 ELSE BNBitLen(x.m) + x.e
        mag == IF top(a) # top(b) THEN (IF top(a) < top(b) THEN -1 ELSE 1)
               ELSE IF a.k = "inf" THEN 0
               ELSE LET e0 == Min(a.e, b.e)
                    IN  BNCmp(BNShl(a.m, a.e - e0), BNShl(b.m, b.e - e0))
    IN  IF sa # sb THEN (IF sa < sb THEN -1 ELSE 1)
        ELSE IF sa = 0 THEN 0
        ELSE sa * mag

\* a > b and a == b as Rust's f64 comparisons: false when either is NaN.
FGt(a, b) == a.k # "nan" /\ b.k # "nan" /\ FCmp(a, b) > 0
FEq(a, b) == a.k # "nan" /\ b.k # "nan" /\ FCmp(a, b) = 0

\* `n as f64` for a usize n (exact below 2^53)
FromNat(n) == FPack(0, BNFromNat(n), 0)

\* the f64 that is the integer n (negative or not)
FromInt(n) == IF n < 0 THEN FPack(1, BNFromNat(-n), 0) ELSE FromNat(n)

\* The operation on a and b rounds nothing: its exact result is an f64.
FAddExact(a, b) ==
    /\ a.k = "fin" /\ b.k = "fin"
    /\ \/ IsZero(a)
       \/ IsZero(b)
       \/ /\ FTop(a) - FTop(b) <= GuardGap
          /\ FTop(b) - FTop(a) <= GuardGap
          /\ LET e0 == Min(a.e, b.e)
                 A == BNShl(a.m, a.e - e0)
                 B == BNShl(b.m, b.e - e0)
             IN  FExact(IF a.s = b.s THEN BNAdd(A, B)
                        ELSE IF BNCmp(A, B) >= 0 THEN BNSub(A, B) ELSE BNSub(B, A), e0)

FSubExact(a, b) == FAddExact(a, FNeg(b))

FMulExact(a, b) ==
    /\ a.k = "fin" /\ b.k = "fin"
    /\ IsZero(a) \/ IsZero(b) \/ FExact(BNMul(a.m, b.m), a.e + b.e)

FDivExact(a, b) ==
    /\ a.k = "fin" /\ b.k = "fin" /\ ~IsZero(b)
    /\ \/ IsZero(a)
       \/ LET q == FDiv(a, b)
          IN  q.k = "fin" /\ ~IsZero(q) /\ FMulExact(q, b) /\ FMul(q, b) = a

(***************************************************************************)
(* Complex<f64> of the num crate: a pair re, im with the crate's + and *    *)
(* and norm_sqr.                                                           *)
(***************************************************************************)
Complex(re, im) == [re |-> re, im |-> im]

CAdd(a, b) == Complex(FAdd(a.re, b.re), FAdd(a.im, b.im))

CMul(a, b) ==
    Complex(FSub(FMul(a.re, b.re), FMul(a.im, b.im)),
            FAdd(FMul(a.re, b.im), FMul(a.im, b.re)))

norm_sqr(z) == FAdd(FMul(z.re, z.re), FMul(z.im, z.im))

\* Option<T>
None == [some |-> FALSE, val |-> 0]
Some(v) == [some |-> TRUE, val |-> v]

(***************************************************************************)
(* escape_time: the loop `for i in 0..limit`.  A loop state is z, the next *)
(* i, and ret, the value returned once the loop has left.                  *)
(***************************************************************************)
EscapeRadiusSqr == FromNat(4)

EscapeIter(st, c) ==
    LET z == CAdd(CMul(st.z, st.z), c)
    IN  IF FGt(norm_sqr(z), EscapeRadiusSqr)
        THEN [z |-> z, i |-> st.i, ret |-> Some(st.i)]
        ELSE [z |-> z, i |-> st.i + 1, ret |-> None]

\* n more iterations of the loop from state st, unless it returns before;
\* the iterations are run as two halves to keep the evaluation shallow.
RECURSIVE EscapeLoop(_, _, _)
EscapeLoop(st, c, n) ==
    IF n = 0 \/ st.ret.some THEN st
    ELSE IF n = 1 THEN EscapeIter(st, c)
    ELSE EscapeLoop(EscapeLoop(st, c, n \div 2), c, n - n \div 2)

\* a changed escape_time: the loop `for i in 0..=limit`
escape_time_inclusive(c, limit) ==
    EscapeLoop([z |-> Complex(FZero(0), FZero(0)), i |-> 0, ret |-> None],
               c, limit + 1).ret

escape_time(c, limit) ==
    EscapeLoop([z |-> Complex(FZero(0), FZero(0)), i |-> 0, ret |-> None],
               c, limit).ret

(***************************************************************************)
(* pixel_to_point: bounds and pixel are pairs <<column, row>> of usize.     *)
(***************************************************************************)
\* a changed pixel_to_point: the imaginary part grows with the row
pixel_to_point_up(bounds, pixel, top_left, bot_right) ==
    LET width == FSub(bot_right.re, top_left.re)
        height == FSub(top_left.im, bot_right.im)
    IN  Complex(FAdd(top_left.re,
                     FDiv(FMul(FromNat(pixel[1]), width), FromNat(bounds[1]))),
                FAdd(top_left.im,
                     FDiv(FMul(FromNat(pixel[2]), height), FromNat(bounds[2]))))

pixel_to_point(bounds, pixel, top_left, bot_right) ==
    LET tl == top_left
        br == bot_right
        width == FSub(br.re, tl.re)
        height == FSub(tl.im, br.im)
    IN  Complex(FAdd(tl.re, FDiv(FMul(FromNat(pixel[1]), width), FromNat(bounds[1]))),
                FSub(tl.im, FDiv(FMul(FromNat(pixel[2]), height), FromNat(bounds[2]))))

\* `==` on Complex<f64>: both parts equal as f64 (a NaN equals nothing)
CEq(a, b) == FEq(a.re, b.re) /\ FEq(a.im, b.im)

\* No operation of pixel_to_point rounds on these arguments.
PointExact(bounds, pixel, top_left, bot_right) ==
    LET width == FSub(bot_right.re, top_left.re)
        height == FSub(top_left.im, bot_right.im)
        x == FMul(FromNat(pixel[1]), width)
        y == FMul(FromNat(pixel[2]), height)
        dx == FDiv(x, FromNat(bounds[1]))
        dy == FDiv(y, FromNat(bounds[2]))
    IN  /\ FSubExact(bot_right.re, top_left.re)
        /\ FSubExact(top_left.im, bot_right.im)
        /\ FMulExact(FromNat(pixel[1]), width)
        /\ FMulExact(FromNat(pixel[2]), height)
        /\ FDivExact(x, FromNat(bounds[1]))
        /\ FDivExact(y, FromNat(bounds[2]))
        /\ FAddExact(top_left.re, dx)
        /\ FSubExact(top_left.im, dy)

(***************************************************************************)
(* Strings are sequences of characters.  <usize as FromStr>::from_str and  *)
(* <f64 as FromStr>::from_str are the standard library's; Ok(v) and Err    *)
(* are Some(v) and None here.                                              *)
(***************************************************************************)
Digits == <<"0", "1", "2", "3", "4", "5", "6", "7", "8", "9">>

IsDigit(ch) == \E d \in 1..10 : Digits[d] = ch
DigitVal(ch) == (CHOOSE d \in 1..10 : Digits[d] = ch) - 1
AllDigits(t) == \A i \in 1..Len(t) : IsDigit(t[i])

\* the number of leading characters of t that are digits
RECURSIVE DigitRun(_)
DigitRun(t) == IF t # << >> /\ IsDigit(t[1]) THEN 1 + DigitRun(Tail(t)) ELSE 0

Drop(t, n) == SubSeq(t, n + 1, Len(t))

\* the decimal digit string t (most significant first) as a machine integer
RECURSIVE DecNat(_)
DecNat(t) ==
    IF t = << >> THEN 0
    ELSE 10 * DecNat(SubSeq(t, 1, Len(t) - 1)) + DigitVal(t[Len(t)])

\* the decimal digit string t as a natural number of any size
RECURSIVE DecBN(_)
DecBN(t) ==
    IF t = << >> THEN << >>
    ELSE BNAddC(BNMulSmall(DecBN(SubSeq(t, 1, Len(t) - 1)), 10), << >>, 1,
                DigitVal(t[Len(t)]))

\* usize::from_str: an optional +, then digits; Err when the number needs more
\* than the 64 bits of a usize
UsizeBits == 64

from_str_usize(t) ==
    LET body == IF t # << >> /\ t[1] = "+" THEN Tail(t) ELSE t
    IN  IF body # << >> /\ AllDigits(body) /\ BNBitLen(DecBN(body)) <= UsizeBits
        THEN Some(DecNat(body)) ELSE None

\* i32::from_str: an optional + or -, then digits; Err outside -2^31 .. 2^31 - 1
I32Bits == 32

from_str_i32(t) ==
    LET neg == t # << >> /\ t[1] = "-"
        body == IF t # << >> /\ t[1] \in {"+", "-"} THEN Tail(t) ELSE t
        mag == DecBN(body)
        least == BNShl(<<1>>, I32Bits - 1)
    IN  IF body = << >> \/ ~AllDigits(body) THEN None
        ELSE IF neg
        THEN (IF BNCmp(mag, least) > 0 THEN None
              ELSE IF mag = least THEN Some(-2147483647 - 1)
              ELSE Some(-BNToNat(mag)))
        ELSE IF BNBitLen(mag) <= I32Bits - 1 THEN Some(BNToNat(mag)) ELSE None

RECURSIVE BNPow10(_)
BNPow10(n) ==
    IF n = 0 THEN <<1>>
    ELSE LET h == BNPow10(n \div 2)
         IN  IF n % 2 = 0 THEN BNMul(h, h) ELSE BNMulSmall(BNMul(h, h), 10)

\* Decimal exponents beyond which the value is decided by its size alone:
\* 10^309 is above every finite f64, and a value below 10^-324 is nearer to
\* zero than to the least positive f64.
MaxDecExp == 309
MinDecExp == -324

\* the f64 nearest to (-1)^s * digits * 10^x
DecToF64(s, digits, x) ==
    LET D == DecBN(digits)
    IN  IF D = << >> THEN FZero(s)
        ELSE IF x >= MaxDecExp THEN FInf(s)
        ELSE IF x + Len(digits) <= MinDecExp THEN FZero(s)
        ELSE IF x >= 0 THEN FRound(s, BNMul(D, BNPow10(x)), 0)
        ELSE FRoundQuot(s, D, BNPow10(-x), 0)

LowerCase(ch) ==
    CASE ch = "I" -> "i" [] ch = "N" -> "n" [] ch = "F" -> "f" [] ch = "T" -> "t"
      [] ch = "Y" -> "y" [] ch = "A" -> "a" [] ch = "E" -> "e" [] OTHER -> ch

Lower(t) == [i \in 1..Len(t) |-> LowerCase(t[i])]

\* the exponent part after the 'e': an optional sign and one or more digits
ParseExp(t) ==
    LET neg == t # << >> /\ t[1] = "-"
        body == IF t # << >> /\ t[1] \in {"+", "-"} THEN Tail(t) ELSE t
    IN  IF body # << >> /\ AllDigits(body)
        THEN Some(IF neg THEN -DecNat(body) ELSE DecNat(body))
        ELSE None

\* f64::from_str after the sign: inf, infinity, nan (in any case), or digits
\* with an optional point and an optional exponent, at least one digit before
\* or after the point, and nothing else.
ParseUnsignedF64(s, t) ==
    LET low == Lower(t)
        ni == DigitRun(t)
        int == SubSeq(t, 1, ni)
        r1 == Drop(t, ni)
        point == r1 # << >> /\ r1[1] = "."
        nf == IF point THEN DigitRun(Tail(r1)) ELSE 0
        frac == IF point THEN SubSeq(r1, 2, nf + 1) ELSE << >>
        r2 == IF point THEN Drop(r1, nf + 1) ELSE r1
        ex == IF r2 = << >> THEN Some(0)
              ELSE IF LowerCase(r2[1]) = "e" THEN ParseExp(Tail(r2))
              ELSE None
    IN  IF low = <<"i", "n", "f">> \/ low = <<"i", "n", "f", "i", "n", "i", "t", "y">>
        THEN Some(FInf(s))
        ELSE IF low = <<"n", "a", "n">> THEN Some(FNaN)
        ELSE IF ni + nf = 0 \/ ~ex.some THEN None
        ELSE Some(DecToF64(s, int \o frac, ex.val - nf))

from_str_f64(t) ==
    IF t = << >> THEN None
    ELSE IF t[1] = "-" THEN ParseUnsignedF64(1, Tail(t))
    ELSE IF t[1] = "+" THEN ParseUnsignedF64(0, Tail(t))
    ELSE ParseUnsignedF64(0, t)

\* T::from_str for the two types parse_pair is used at
from_str(T, t) ==
    IF T = "usize" THEN from_str_usize(t)
    ELSE IF T = "i32" THEN from_str_i32(t)
    ELSE from_str_f64(t)

\* str::find(char): the index of the first occurrence, counted from 0
Find(s, ch) ==
    IF \E i \in 1..Len(s) : s[i] = ch
    THEN Some((CHOOSE i \in 1..Len(s) : s[i] = ch /\ \A j \in 1..(i - 1) : s[j] # ch) - 1)
    ELSE None

(***************************************************************************)
(* parse_pair::<T> and parse_complex                                       *)
(***************************************************************************)
\* a changed parse_pair: the right part starts at the separator, `&s[index..]`
parse_pair_from_index(T, s, separator) ==
    LET found == Find(s, separator)
    IN  IF ~found.some THEN None
        ELSE LET index == found.val
                 l == from_str(T, SubSeq(s, 1, index))
                 r == from_str(T, SubSeq(s, index + 1, Len(s)))
             IN  IF l.some /\ r.some THEN Some(<<l.val, r.val>>) ELSE None

parse_pair(T, s, separator) ==
    LET found == Find(s, separator)
    IN  IF ~found.some THEN None
        ELSE LET index == found.val
                 l == from_str(T, SubSeq(s, 1, index))
                 r == from_str(T, SubSeq(s, index + 2, Len(s)))
             IN  IF l.some /\ r.some THEN Some(<<l.val, r.val>>) ELSE None

parse_complex(s) ==
    LET p == parse_pair("f64", s, ",")
    IN  IF p.some THEN Some(Complex(p.val[1], p.val[2])) ELSE None

(***************************************************************************)
(* render: the byte of one pixel, and main's partition of the image into   *)
(* bands.  A slice of the pixel buffer is start (offset of its first byte  *)
(* in the buffer, from 0) and len.                                         *)
(***************************************************************************)
threads == 8
IterLimit == 255
U8Max == 255

\* the match in render: `None => 0, Some(i) => 255 - i as u8`
Shade(t) == IF ~t.some THEN 0 ELSE U8Max - (t.val % (U8Max + 1))

\* the body of render's loops for the pixel at (row, col)
RenderPixel(bounds, top_left, bot_right, row, col) ==
    Shade(escape_time(pixel_to_point(bounds, <<col, row>>, top_left, bot_right),
                      IterLimit))

\* the index render writes for (row, col)
PixelIndex(bounds, row, col) == row * bounds[1] + col

\* render's loops from their turn number k (from 0) on: the bytes they store,
\* in the order they store them
RECURSIVE RenderFrom(_, _, _, _)
RenderFrom(bounds, top_left, bot_right, k) ==
    IF k >= bounds[1] * bounds[2] THEN << >>
    ELSE <<RenderPixel(bounds, top_left, bot_right, k \div bounds[1], k % bounds[1])>>
         \o RenderFrom(bounds, top_left, bot_right, k + 1)

\* the bytes one call of render stores, in the order of its loops
render(bounds, top_left, bot_right) == RenderFrom(bounds, top_left, bot_right, 0)

\* a changed RowsPerBand: the height divided by threads, rounded up
RowsPerBandCeil(bounds) == (bounds[2] + threads - 1) \div threads

RowsPerBand(bounds) == bounds[2] \div threads + 1

\* a changed ChunkSize: the other component of bounds
ChunkSizeByHeight(rows_per_band, bounds) == rows_per_band * bounds[2]

\* the argument of chunks_mut: `rows_per_band * bounds.0`
ChunkSize(rows_per_band, bounds) == rows_per_band * bounds[1]

\* a changed BandOffset: every band indexes the buffer from its first byte
SharedOffset(band, index) == index

\* The byte of the buffer that index `index` of a band is: chunks_mut's slices
\* are views of the buffer, each starting where it was cut.
BandOffset(band, index) == band.start + index

\* <[u8]>::chunks_mut(chunk_size) on a slice of len bytes that starts at
\* start: consecutive slices of chunk_size bytes, the last one maybe shorter.
RECURSIVE Chunks(_, _, _)
Chunks(start, len, chunk_size) ==
    IF len = 0 THEN << >>
    ELSE LET n == Min(chunk_size, len)
         IN  <<[start |-> start, len |-> n]>> \o Chunks(start + n, len - n, chunk_size)

\* a changed chunks_mut: chunks_exact_mut, which leaves a shorter last slice out
RECURSIVE ChunksExact(_, _, _)
ChunksExact(start, len, chunk_size) ==
    IF len < chunk_size THEN << >>
    ELSE <<[start |-> start, len |-> chunk_size]>>
             \o ChunksExact(start + chunk_size, len - chunk_size, chunk_size)

chunks_exact_mut(len, chunk_size) == ChunksExact(0, len, chunk_size)

chunks_mut(len, chunk_size) == Chunks(0, len, chunk_size)

\* a changed BandTask: the band's corners worked out with the band's own
\* bounds instead of the image's
BandTaskLocal(bounds, top_left, bot_right, rows_per_band, i, band) ==
    LET top == rows_per_band * i
        height == band.len \div bounds[1]
        band_bounds == <<bounds[1], height>>
    IN  [band |-> band,
         bounds |-> band_bounds,
         top_left |-> pixel_to_point(band_bounds, <<0, top>>, top_left, bot_right),
         bot_right |-> pixel_to_point(band_bounds, <<bounds[1], top + height>>,
                                      top_left, bot_right),
         pos |-> 0,
         state |-> "running"]

\* The body of main's loop over the bands for band number i (from 0): what
\* the spawned closure captures, and where its render stands (pos counts the
\* pixels done).
BandTask(bounds, top_left, bot_right, rows_per_band, i, band) ==
    LET top == rows_per_band * i
        height == band.len \div bounds[1]
    IN  [band |-> band,
         bounds |-> <<bounds[1], height>>,
         top_left |-> pixel_to_point(bounds, <<0, top>>, top_left, bot_right),
         bot_right |-> pixel_to_point(bounds, <<bounds[1], top + height>>,
                                      top_left, bot_right),
         pos |-> 0,
         state |-> "running"]

\* all the tasks main spawns for an image
BandTasks(bounds, top_left, bot_right) ==
    LET rpb == RowsPerBand(bounds)
        bs == chunks_mut(bounds[1] * bounds[2], ChunkSize(rpb, bounds))
    IN  [i \in 1..Len(bs) |-> BandTask(bounds, top_left, bot_right, rpb, i - 1, bs[i])]

(***************************************************************************)
(* The command lines the model runs.  args[1] is the program's name (Rust's *)
(* args[0]), args[2] FILE, args[3] PIXELS, args[4] TOP_LEFT, args[5]        *)
(* BOT_RIGHT.                                                              *)
(***************************************************************************)
MaxPixels == 16

RECURSIVE DecStr(_)
DecStr(n) == IF n < 10 THEN <<Digits[n + 1]>> ELSE DecStr(n \div 10) \o <<Digits[(n % 10) + 1]>>

Dims == {d \in (1..MaxPixels) \X (1..MaxPixels) : d[1] * d[2] <= MaxPixels}

PixelsArg(d) == DecStr(d[1]) \o <<"x">> \o DecStr(d[2])

ProgName == <<"m">>
FileArg == <<"o">>
CmdLine(pixels_arg, tl_arg, br_arg) == <<ProgName, FileArg, pixels_arg, tl_arg, br_arg>>

\* -2,2 and 6,-6: a square around the set
WideTL == <<"-", "2", ",", "2">>
WideBR == <<"6", ",", "-", "6">>
\* 1.1,0.7 and 1.7,0.1: corners that are no binary fractions
FarTL == <<"1", ".", "1", ",", "0", ".", "7">>
FarBR == <<"1", ".", "7", ",", "0", ".", "1">>

GoodCmdLines ==
    {CmdLine(PixelsArg(d), WideTL, WideBR) : d \in Dims}
    \cup {CmdLine(PixelsArg(d), FarTL, FarBR) : d \in {<<2, 2>>, <<1, 9>>}}

OddCmdLines ==
    {CmdLine(px, WideTL, WideBR) :
        px \in {<<"0", "x", "5">>, <<"5", "x", "0">>, <<"0", "x", "0">>,
                <<"5">>, <<"5", "x">>, <<"x", "5">>, <<"2", "x", "2", "x">>,
                <<"2", ",", "2">>, <<"+", "2", "x", "2">>, <<"-", "2", "x", "2">>}}
    \cup {CmdLine(<<"2", "x", "2">>, <<",", "1", ".", "0">>, WideBR),
          CmdLine(<<"2", "x", "2">>, WideTL, <<"6", ",", "-", "6", "x">>),
          CmdLine(<<"2", "x", "2">>, WideTL, <<"6">>),
          <<ProgName, FileArg, <<"2", "x", "2">>, WideTL>>,
          <<ProgName>>}

CmdLines == GoodCmdLines \cup OddCmdLines

(***************************************************************************)
(* The calls the runs of main make, each with its value, worked out once:  *)
(* a step of the program that makes a call takes the call's entry.         *)
(***************************************************************************)
\* the command lines with the five arguments main asks for
FullCmdLines == {a \in CmdLines : Len(a) = 5}

\* `parse_pair(&args[2], 'x')`
ArgPairTable ==
    {[call |-> <<"usize", t, "x">>, value |-> parse_pair("usize", t, "x")] :
        t \in {a[3] : a \in FullCmdLines}}

\* `parse_complex(&args[3])` and `parse_complex(&args[4])`
ArgComplexTable ==
    {[call |-> t, value |-> parse_complex(t)] :
        t \in {a[4] : a \in FullCmdLines} \cup {a[5] : a \in FullCmdLines}}

\* what main computes from a command line it accepts
ParsedRun(a) ==
    IF Len(a) # 5 THEN None
    ELSE LET b == parse_pair("usize", a[3], "x")
             tl == parse_complex(a[4])
             br == parse_complex(a[5])
         IN  IF b.some /\ tl.some /\ br.some
             THEN Some([bounds |-> b.val, top_left |-> tl.val, bot_right |-> br.val])
             ELSE None

\* the images of the command lines main accepts
Runs == {ParsedRun(a).val : a \in {x \in CmdLines : ParsedRun(x).some}}

\* the bands main cuts the buffer of a run into, none when chunks_mut panics
RunBands(run) ==
    LET chunk_size == ChunkSize(RowsPerBand(run.bounds), run.bounds)
    IN  IF chunk_size = 0 THEN << >>
        ELSE chunks_mut(run.bounds[1] * run.bounds[2], chunk_size)

\* the turns of main's loop over the bands of a run
BandTaskCallsOf(run) ==
    {<<run.bounds, run.top_left, run.bot_right, RowsPerBand(run.bounds), i - 1,
       RunBands(run)[i]>> : i \in 1..Len(RunBands(run))}

BandTaskTable ==
    {[call |-> c, value |-> BandTask(c[1], c[2], c[3], c[4], c[5], c[6])] :
        c \in UNION {BandTaskCallsOf(run) : run \in Runs}}

\* `render(band, band_bounds, band_top_left, band_bot_right)` of the threads
RenderTable ==
    {[call |-> <<tk.bounds, tk.top_left, tk.bot_right>>,
      value |-> render(tk.bounds, tk.top_left, tk.bot_right)] :
        tk \in {m.value : m \in BandTaskTable}}

(***************************************************************************)
(* The program: main, and one thread per band running render.              *)
(***************************************************************************)
VARIABLES
    main,           \* main's locals: args, bounds, top_left, bot_right, pixels,
                    \* rows_per_band, bands
    pc,             \* where main stands
    tasks,          \* the threads spawned so far, in spawning order
    wrote,          \* for each byte of the buffer, the threads that wrote it
    image,          \* what write_image was given
    call            \* a function applied on its own, with its result

vars == <<main, pc, tasks, wrote, image, call>>

ZeroC == Complex(FZero(0), FZero(0))
NoCall == [fn |-> "none"]
NoImage == [written |-> FALSE, pixels |-> << >>, bounds |-> <<0, 0>>]

\* main's locals before main has run
MainLocals(a) ==
    [args |-> a, bounds |-> <<0, 0>>, top_left |-> ZeroC, bot_right |-> ZeroC,
     pixels |-> << >>, rows_per_band |-> 0, bands |-> << >>]

\* main has not started
MainIdle(a, p) ==
    /\ main = MainLocals(a)
    /\ pc = p
    /\ tasks = << >>
    /\ wrote = << >>
    /\ image = NoImage

Init ==
    /\ \E a \in CmdLines : MainIdle(a, "start")
    /\ call = NoCall

\* `if args.len() != 5 { ...; std::process::exit(1) }`
CheckArgs ==
    /\ pc = "start"
    /\ pc' = IF Len(main.args) # 5 THEN "exit1" ELSE "parse_bounds"
    /\ UNCHANGED <<main, tasks, wrote, image, call>>

\* `let bounds = parse_pair(&args[2], 'x').expect(..)`
ParseBounds ==
    \E m \in ArgPairTable :
        /\ pc = "parse_bounds"
        /\ m.call = <<"usize", main.args[3], "x">>
        /\ IF m.value.some
           THEN main' = [main EXCEPT !.bounds = m.value.val] /\ pc' = "parse_top_left"
           ELSE main' = main /\ pc' = "panic"
        /\ UNCHANGED <<tasks, wrote, image, call>>

\* `let top_left = parse_complex(&args[3]).expect(..)`
ParseTopLeft ==
    \E m \in ArgComplexTable :
        /\ pc = "parse_top_left"
        /\ m.call = main.args[4]
        /\ IF m.value.some
           THEN main' = [main EXCEPT !.top_left = m.value.val] /\ pc' = "parse_bot_right"
           ELSE main' = main /\ pc' = "panic"
        /\ UNCHANGED <<tasks, wrote, image, call>>

\* `let bot_right = parse_complex(&args[4]).expect(..)`
ParseBotRight ==
    \E m \in ArgComplexTable :
        /\ pc = "parse_bot_right"
        /\ m.call = main.args[5]
        /\ IF m.value.some
           THEN main' = [main EXCEPT !.bot_right = m.value.val] /\ pc' = "alloc"
           ELSE main' = main /\ pc' = "panic"
        /\ UNCHANGED <<tasks, wrote, image, call>>

\* `let mut pixels = vec![0; bounds.0 * bounds.1]`
Alloc ==
    /\ pc = "alloc"
    /\ main' = [main EXCEPT !.pixels = [k \in 1..(main.bounds[1] * main.bounds[2]) |-> 0]]
    /\ wrote' = [k \in 1..(main.bounds[1] * main.bounds[2]) |-> << >>]
    /\ pc' = "partition"
    /\ UNCHANGED <<tasks, image, call>>

\* `let rows_per_band = bounds.1 / threads + 1` and
\* `pixels.chunks_mut(rows_per_band * bounds.0).collect()`; chunks_mut panics
\* when the chunk size is 0
Partition ==
    /\ pc = "partition"
    /\ LET rpb == RowsPerBand(main.bounds)
           chunk_size == ChunkSize(rpb, main.bounds)
       IN  IF chunk_size = 0
           THEN main' = [main EXCEPT !.rows_per_band = rpb] /\ pc' = "panic"
           ELSE /\ main' = [main EXCEPT !.rows_per_band = rpb,
                                         !.bands = chunks_mut(Len(main.pixels), chunk_size)]
                /\ pc' = "spawn"
    /\ UNCHANGED <<tasks, wrote, image, call>>

\* one turn of `for (i, band) in bands.into_iter().enumerate()`: spawn a thread
SpawnBand ==
    \E m \in BandTaskTable :
        /\ pc = "spawn"
        /\ Len(tasks) < Len(main.bands)
        /\ m.call = <<main.bounds, main.top_left, main.bot_right, main.rows_per_band,
                      Len(tasks), main.bands[Len(tasks) + 1]>>
        /\ tasks' = Append(tasks, m.value)
        /\ UNCHANGED <<main, pc, wrote, image, call>>

\* render's `assert!(pixels.len() == bounds.0 * bounds.1)`
RenderAssert(tk) == tk.band.len = tk.bounds[1] * tk.bounds[2]

\* One step of a thread, the one of task t: the next turn of render's loops
\* (the assertion first, when it is the first one).  A failed assertion, or an
\* index outside the thread's slice, panics the thread.
TaskStep ==
    \E m \in RenderTable : \E t \in 1..Len(tasks) :
        /\ tasks[t].state = "running"
        /\ m.call = <<tasks[t].bounds, tasks[t].top_left, tasks[t].bot_right>>
        /\ LET tk == tasks[t]
               n == tk.bounds[1] * tk.bounds[2]
               row == tk.pos \div tk.bounds[1]
               col == tk.pos % tk.bounds[1]
               index == PixelIndex(tk.bounds, row, col)
               off == BandOffset(tk.band, index)
           IN  IF ~RenderAssert(tk)
               THEN /\ tasks' = [tasks EXCEPT ![t].state = "panicked"]
                    /\ UNCHANGED <<main, wrote>>
               ELSE IF n = 0
               THEN /\ tasks' = [tasks EXCEPT ![t].state = "done"]
                    /\ UNCHANGED <<main, wrote>>
               ELSE IF index >= tk.band.len
               THEN /\ tasks' = [tasks EXCEPT ![t].state = "panicked"]
                    /\ UNCHANGED <<main, wrote>>
               ELSE /\ main' = [main EXCEPT !.pixels[off + 1] = m.value[tk.pos + 1]]
                    /\ wrote' = [wrote EXCEPT ![off + 1] = Append(@, t)]
                    /\ tasks' = [tasks EXCEPT ![t].pos = tk.pos + 1,
                                              ![t].state = IF tk.pos + 1 = n THEN "done"
                                                           ELSE "running"]
        /\ UNCHANGED <<pc, image, call>>

\* a changed ScopeJoined: threads spawned without a scope, which nothing joins
ScopeDetached == TRUE

\* crossbeam::scope returns once every thread spawned in it has ended
ScopeJoined == \A t \in 1..Len(tasks) : tasks[t].state # "running"

\* The end of the scope: it joins the threads, and panics if one panicked.
ScopeEnd ==
    /\ pc = "spawn"
    /\ Len(tasks) = Len(main.bands)
    /\ ScopeJoined
    /\ pc' = IF \E t \in 1..Len(tasks) : tasks[t].state = "panicked"
             THEN "panic" ELSE "write"
    /\ UNCHANGED <<main, tasks, wrote, image, call>>

\* `write_image(&args[1], &pixels, bounds).expect(..)`: the encoder is handed
\* the buffer and the bounds; creating or writing the file may fail.
WriteImage ==
    /\ pc = "write"
    /\ image' = [written |-> TRUE, pixels |-> main.pixels, bounds |-> main.bounds]
    /\ \E ok \in BOOLEAN : pc' = IF ok THEN "exit0" ELSE "panic"
    /\ UNCHANGED <<main, tasks, wrote, call>>

Next ==
    \/ CheckArgs
    \/ ParseBounds
    \/ ParseTopLeft
    \/ ParseBotRight
    \/ Alloc
    \/ Partition
    \/ SpawnBand
    \/ TaskStep
    \/ ScopeEnd
    \/ WriteImage

Spec == Init /\ [][Next]_vars

(***************************************************************************)
(* Properties of main and its threads.                                     *)
(***************************************************************************)
\* the bytes of the buffer that a slice covers
BandOffsets(band) == band.start .. (band.start + band.len - 1)

\* main has cut the buffer into bands
BandsBuilt == pc \in {"spawn", "write", "exit0"} \/ image.written

\* the last band is shorter than the others
LastBandShorter ==
    /\ Len(main.bands) >= 2
    /\ main.bands[Len(main.bands)].len < main.bands[1].len

\* C1: for bounds with width >= 1 and height >= 1 the bands of main partition
\* the buffer: every offset below width * height lies in exactly one band,
\* band i (from 0) starts at row i * rows_per_band, and there are
\* ceil(height / rows_per_band) bands.
C1_BandsPartition ==
    (BandsBuilt /\ main.bounds[1] >= 1 /\ main.bounds[2] >= 1) =>
        LET w == main.bounds[1]
            h == main.bounds[2]
            rpb == main.rows_per_band
            n == Len(main.bands)
        IN  /\ \A k \in 0..(w * h - 1) :
                   Cardinality({i \in 1..n : k \in BandOffsets(main.bands[i])}) = 1
            /\ \A i \in 1..n : /\ main.bands[i].len >= 1
                               /\ BandOffsets(main.bands[i]) \subseteq 0..(w * h - 1)
                               /\ main.bands[i].start = (i - 1) * rpb * w
            /\ (n - 1) * rpb < h
            /\ h <= n * rpb

C1_Witness ==
    /\ pc = "spawn"
    /\ Len(main.bands) = threads
    /\ LastBandShorter

\* C2 as the specification words it: rows_per_band is ceil(height / 8), so
\* that a height of 8 gives 1 row a band and 8 bands.
C2_Original ==
    (BandsBuilt /\ main.bounds[1] >= 1 /\ main.bounds[2] >= 1) =>
        /\ main.rows_per_band = (main.bounds[2] + threads - 1) \div threads
        /\ (main.bounds[2] = threads =>
                main.rows_per_band = 1 /\ Len(main.bands) = threads)

\* C2: rows_per_band is floor(height / 8) + 1, the least count that is more
\* than height / 8: 8 * (rows_per_band - 1) <= height < 8 * rows_per_band.  A
\* height of 8 gives 2 rows a band and 4 bands, a height of 16 gives 3 and 6.
C2_RowsPerBand ==
    (pc \in {"spawn", "write", "exit0"} \/ image.written \/ main.rows_per_band # 0) =>
        /\ threads * (main.rows_per_band - 1) <= main.bounds[2]
        /\ main.bounds[2] < threads * main.rows_per_band
        /\ (BandsBuilt /\ main.bounds[1] >= 1 /\ main.bounds[2] = threads =>
                main.rows_per_band = 2 /\ Len(main.bands) = 4)
        /\ (BandsBuilt /\ main.bounds[1] >= 1 /\ main.bounds[2] = 2 * threads =>
                main.rows_per_band = 3 /\ Len(main.bands) = 6)

C2_Witness ==
    /\ pc = "spawn"
    /\ main.bounds[2] = threads
    /\ main.rows_per_band = 2
    /\ Len(main.bands) = 4

\* The byte of offset k (from 0) of the image, from the coordinates of its
\* pixel alone: the band of its row, that band's corners, and the pixel's
\* place in the band.
ExpectedByte(bounds, top_left, bot_right, k) ==
    LET ts == BandTasks(bounds, top_left, bot_right)
        t == CHOOSE i \in 1..Len(ts) : k \in BandOffsets(ts[i].band)
        j == k - ts[t].band.start
    IN  RenderPixel(ts[t].bounds, ts[t].top_left, ts[t].bot_right,
                    j \div bounds[1], j % bounds[1])

ExpectedBuffer(bounds, top_left, bot_right) ==
    [k \in 1..(bounds[1] * bounds[2]) |->
        ExpectedByte(bounds, top_left, bot_right, k - 1)]

\* C3: whatever the order in which the threads ran, the buffer main ends with
\* is the one its bounds and corners determine, byte by byte; a thread writes
\* only bytes of its own slice, and no two slices share a byte.
C3_ScheduleIndependent ==
    /\ \A k \in 1..Len(wrote) : \A j \in 1..Len(wrote[k]) :
           (k - 1) \in BandOffsets(tasks[wrote[k][j]].band)
    /\ \A t \in 1..Len(tasks) : \A u \in 1..Len(tasks) :
           t # u => BandOffsets(tasks[t].band) \cap BandOffsets(tasks[u].band) = {}
    /\ pc = "write" =>
           main.pixels = ExpectedBuffer(main.bounds, main.top_left, main.bot_right)

C3_Witness ==
    /\ pc = "write"
    /\ Len(tasks) >= 3
    /\ tasks[1].bounds[2] >= 2
    /\ \E k \in 1..Len(main.pixels) : main.pixels[k] # main.pixels[1]

\* C4: write_image is called only once every thread has ended; the buffer it
\* is given has had each byte written once, by no thread that still runs.
C4_WriteAfterJoin ==
    (pc = "write" \/ image.written) =>
        /\ Len(tasks) = Len(main.bands)
        /\ \A t \in 1..Len(tasks) : tasks[t].state = "done"
        /\ \A k \in 1..Len(wrote) : Len(wrote[k]) = 1
        /\ Len(wrote) = main.bounds[1] * main.bounds[2]
        /\ (image.written => image.pixels = main.pixels /\ image.bounds = main.bounds)

C4_Witness ==
    /\ image.written
    /\ Len(tasks) = threads
    /\ \A k \in 1..Len(wrote) : Len(wrote[k]) = 1

\* C5 as the specification words it: once the arguments have parsed and main
\* allocates and partitions the buffer, width >= 1 and height >= 1.
C5_BoundsValid ==
    pc \in {"alloc", "partition", "spawn", "write", "exit0"} =>
        main.bounds[1] >= 1 /\ main.bounds[2] >= 1

\* the point that the thread of task tk works out for pixel (col, r) of its band
BandPoint(tk, col, r) == pixel_to_point(tk.bounds, <<col, r>>, tk.top_left, tk.bot_right)

\* the point of the same pixel in the whole image, for task number t (from 1)
FullPoint(t, col, r) ==
    pixel_to_point(main.bounds, <<col, main.rows_per_band * (t - 1) + r>>,
                   main.top_left, main.bot_right)

\* Nothing rounds on the way to pixel (col, r) of the band of task t: not in
\* the band's corners, not in the point from them, not in the image's point.
BandExact(t, col, r) ==
    LET top == main.rows_per_band * (t - 1)
        tk == tasks[t]
    IN  /\ PointExact(main.bounds, <<0, top>>, main.top_left, main.bot_right)
        /\ PointExact(main.bounds, <<main.bounds[1], top + tk.bounds[2]>>,
                      main.top_left, main.bot_right)
        /\ PointExact(tk.bounds, <<col, r>>, tk.top_left, tk.bot_right)
        /\ PointExact(main.bounds, <<col, top + r>>, main.top_left, main.bot_right)

BandPixels(t) == (0..(tasks[t].bounds[1] - 1)) \X (0..(tasks[t].bounds[2] - 1))

\* all the points of all the bands are the image's points
BandsAgree ==
    \A t \in 1..Len(tasks) : \A p \in BandPixels(t) :
        CEq(BandPoint(tasks[t], p[1], p[2]), FullPoint(t, p[1], p[2]))

\* the buffer of one call of render on the whole image
SingleRender(bounds, top_left, bot_right) ==
    [k \in 1..(bounds[1] * bounds[2]) |->
        RenderPixel(bounds, top_left, bot_right, (k - 1) \div bounds[1], (k - 1) % bounds[1])]

\* C8 as the specification words it: every point a band works out is the
\* point of the whole image, and the buffer is that of one render.
C8_Original ==
    pc = "write" =>
        /\ BandsAgree
        /\ main.pixels = SingleRender(main.bounds, main.top_left, main.bot_right)

\* C8: a band's point for pixel (col, r) is the image's point for
\* (col, top + r) whenever no floating-point operation on the way rounds, the
\* last, shorter band included; and when all the points agree the buffer is
\* that of one render of the whole image.
C8_BandsAsWhole ==
    pc = "write" =>
        /\ \A t \in 1..Len(tasks) : \A p \in BandPixels(t) :
               BandExact(t, p[1], p[2]) =>
                   CEq(BandPoint(tasks[t], p[1], p[2]), FullPoint(t, p[1], p[2]))
        /\ (BandsAgree =>
               main.pixels = SingleRender(main.bounds, main.top_left, main.bot_right))

C8_Witness ==
    /\ pc = "write"
    /\ LastBandShorter
    /\ main.bounds[2] > threads
    /\ \A t \in 1..Len(tasks) : \A p \in BandPixels(t) : BandExact(t, p[1], p[2])
    /\ BandsAgree
    /\ main.pixels = SingleRender(main.bounds, main.top_left, main.bot_right)

\* C9: render's assertion holds in every thread main spawns: a band's length
\* is a multiple of the width, it is width * (length / width), no thread
\* panics, and the index of the next pixel is inside the thread's slice.
C9_AssertHolds ==
    /\ \A i \in 1..Len(main.bands) :
           /\ main.bands[i].len % main.bounds[1] = 0
           /\ main.bands[i].len = main.bounds[1] * (main.bands[i].len \div main.bounds[1])
    /\ \A t \in 1..Len(tasks) :
           LET tk == tasks[t]
           IN  /\ RenderAssert(tk)
               /\ tk.state # "panicked"
               /\ tk.state = "running" =>
                      PixelIndex(tk.bounds, tk.pos \div tk.bounds[1], tk.pos % tk.bounds[1])
                          < tk.band.len
               /\ \A k \in 1..Len(wrote) :
                      (\E j \in 1..Len(wrote[k]) : wrote[k][j] = t) =>
                          (k - 1) \in BandOffsets(tk.band)
    /\ (pc = "panic" /\ tasks # << >>) => image.written

C9_Witness ==
    /\ pc = "spawn"
    /\ LastBandShorter
    /\ Len(tasks) = Len(main.bands)
    /\ tasks[Len(tasks)].state = "done"
    /\ \E t \in 1..Len(tasks) : tasks[t].state = "running" /\ tasks[t].pos >= 1

(***************************************************************************)
(* The functions on their own: a call is drawn in the first state and      *)
(* applied in the next; main does not run.                                 *)
(***************************************************************************)
NoMain == MainIdle(<< >>, "idle")

(* pixel_to_point *)
MaxDim == 3

\* the f64 nearest to n / d: what the decimal text of n / d parses to
Ratio(n, d) == FDiv(FromInt(n), FromNat(d))

\* the point re + im i of a plane whose unit is d
Point(re, im, d) == Complex(Ratio(re, d), Ratio(im, d))

\* 2^1023, with sign s
Huge(s) == FPack(s, BNFromNat(1), 1023)

\* Pairs of corners top_left, bot_right: in hundredths (-1, 1) and (1, -1),
\* (-2, 2) and (6, -6), (-1.5, 1.5) and (1.5, -1.5), (1.1, 0.7) and (1.7, 0.1),
\* (-1.20, 0.35) and (-1, 0.20), (0.1, 0.3) and (0.7, 0.1); then some with
\* -0, with an extent that overflows, and with a NaN.
MapCorners ==
    {<<Point(q[1], q[2], 100), Point(q[3], q[4], 100)>> :
        q \in {<<-100, 100, 100, -100>>, <<-200, 200, 600, -600>>,
                <<-150, 150, 150, -150>>, <<110, 70, 170, 10>>,
                <<-120, 35, -100, 20>>, <<10, 30, 70, 10>>}}
    \cup {<<Complex(FZero(1), FZero(0)), Point(4, -4, 1)>>,
          <<Complex(Huge(1), Huge(0)), Complex(Huge(0), Huge(1))>>,
          <<Complex(FNaN, FromInt(1)), Point(1, -1, 1)>>}

TestBounds == <<100, 100>>
TestPixel == <<25, 75>>

MapBounds == ((1..MaxDim) \X (1..MaxDim)) \cup {TestBounds}

MapPixels(b) ==
    IF b = TestBounds THEN {<<0, 0>>, TestPixel, TestBounds}
    ELSE (0..b[1]) \X (0..b[2])

\* the calls of pixel_to_point, each with its value
PixelToPointTable ==
    {[call |-> c, value |-> pixel_to_point(c[1], c[2], c[3], c[4])] :
        c \in UNION {{<<b, p, cs[1], cs[2]>> : p \in MapPixels(b)} :
                         b \in MapBounds, cs \in MapCorners}}

MapInit ==
    /\ NoMain
    /\ \E b \in MapBounds, cs \in MapCorners :
           \E p \in MapPixels(b) :
               call = [fn |-> "pixel_to_point", bounds |-> b, pixel |-> p,
                       top_left |-> cs[1], bot_right |-> cs[2],
                       done |-> FALSE, result |-> ZeroC]

ApplyPixelToPoint ==
    \E m \in PixelToPointTable :
        /\ call.fn = "pixel_to_point"
        /\ ~call.done
        /\ m.call = <<call.bounds, call.pixel, call.top_left, call.bot_right>>
        /\ call' = [call EXCEPT !.done = TRUE, !.result = m.value]
        /\ UNCHANGED <<main, pc, tasks, wrote, image>>

MapNext == ApplyPixelToPoint

SpecMap == MapInit /\ [][MapNext]_vars

\* the plane is of finite extent both ways
FiniteExtent(top_left, bot_right) ==
    /\ FSub(bot_right.re, top_left.re).k = "fin"
    /\ FSub(top_left.im, bot_right.im).k = "fin"

IsTestVector ==
    /\ call.bounds = TestBounds
    /\ call.pixel = TestPixel
    /\ call.top_left = Complex(FromInt(-1), FromInt(1))
    /\ call.bot_right = Complex(FromInt(1), FromInt(-1))

MinusHalf == FDiv(FromInt(-1), FromNat(2))

\* C6 as the specification words it, for a plane of finite extent: pixel
\* (0, 0) is exactly top_left and pixel (width, height) exactly bot_right.
C6_Original ==
    (call.fn = "pixel_to_point" /\ call.done
        /\ FiniteExtent(call.top_left, call.bot_right)) =>
        /\ (call.pixel = <<0, 0>> => CEq(call.result, call.top_left))
        /\ (call.pixel = call.bounds => CEq(call.result, call.bot_right))
        /\ (IsTestVector => call.result = Complex(MinusHalf, MinusHalf))

\* C6: pixel (0, 0) is top_left when the plane is of finite extent.  When no
\* operation of pixel_to_point rounds, the result is the affine image of the
\* pixel, width * (re - top_left.re) = col * (bot_right.re - top_left.re) and
\* height * (top_left.im - im) = row * (top_left.im - bot_right.im), and
\* pixel (width, height) is bot_right.  Pixel (25, 75) of 100 x 100 over
\* (-1, 1) .. (1, -1) is (-0.5, -0.5).
C6_AffineMap ==
    (call.fn = "pixel_to_point" /\ call.done) =>
        LET b == call.bounds
            p == call.pixel
            tl == call.top_left
            br == call.bot_right
            r == call.result
        IN  /\ (p = <<0, 0>> /\ FiniteExtent(tl, br)) => CEq(r, tl)
            /\ PointExact(b, p, tl, br) =>
                   /\ FEq(FMul(FromNat(b[1]), FSub(r.re, tl.re)),
                          FMul(FromNat(p[1]), FSub(br.re, tl.re)))
                   /\ FEq(FMul(FromNat(b[2]), FSub(tl.im, r.im)),
                          FMul(FromNat(p[2]), FSub(tl.im, br.im)))
                   /\ (p = b => CEq(r, br))
            /\ (IsTestVector => r = Complex(MinusHalf, MinusHalf))

C6_Witness ==
    /\ call.fn = "pixel_to_point"
    /\ call.done
    /\ call.pixel = call.bounds
    /\ call.bounds = <<3, 3>>
    /\ PointExact(call.bounds, call.pixel, call.top_left, call.bot_right)
    /\ ~IsZero(call.result.re)
    /\ CEq(call.result, call.bot_right)

(* parse_pair and parse_complex *)
MaxLen == 4

ParseAlphabet == {"1", "x", ",", "-"}

RECURSIVE StringsUpTo(_)
StringsUpTo(n) ==
    IF n = 0 THEN {<< >>}
    ELSE LET shorter == StringsUpTo(n - 1)
         IN  shorter \cup {Append(t, ch) : t \in shorter, ch \in ParseAlphabet}

\* the strings of the source's tests and of its usage message, and some with
\* signs, blanks, points, exponents, names of values, two separators and
\* numbers too large for a type
TestStrings ==
    {<< >>,
     <<"1", "0">>,
     <<"1", "0", ",">>,
     <<"1", "0", ",", "2", "0">>,
     <<"1", "0", ",", "2", "0", "x">>,
     <<"1", ".", "2", "5", ",", "-", "0", ".", "0", "6", "2", "5">>,
     <<",", "1", ".", "0">>,
     <<"1", ".", ",", ".", "1">>,
     <<".", ",", "1">>,
     <<"1", ",", "1", ",", "1">>,
     <<"1", "x", "1", "x", "1">>,
     <<"1", "0", "0", "0", "x", "7", "5", "0">>,
     <<"-", "1", ".", "2", "0", ",", "0", ".", "3", "5">>,
     <<"-", "1", ",", "0", ".", "2", "0">>,
     <<"+", "4", "x", "+", "3">>,
     <<"4", " ", "x", "3">>,
     <<"1", "x">> \o <<"9", "9", "9", "9", "9", "9", "9", "9", "9", "9",
                       "9", "9", "9", "9", "9", "9", "9", "9", "9", "9">>,
     <<"1", ",", "3", "0", "0", "0", "0", "0", "0", "0", "0", "0">>,
     <<"i", "n", "f", ",", "N", "a", "N">>,
     <<"1", "e", "2", ",", "1", "E", "-", "2">>}

ParseStrings == StringsUpTo(MaxLen) \cup TestStrings

\* the instances of parse_pair that the program and its tests use
ParseInstances == {<<"usize", "x">>, <<"i32", ",">>, <<"f64", ",">>, <<"f64", "x">>}

\* the calls of parse_pair and of parse_complex, each with its value
ParsePairTable ==
    {[call |-> <<inst[1], t, inst[2]>>, value |-> parse_pair(inst[1], t, inst[2])] :
        t \in ParseStrings, inst \in ParseInstances}

ParseComplexTable == {[call |-> t, value |-> parse_complex(t)] : t \in ParseStrings}

ParseInit ==
    /\ NoMain
    /\ \E t \in ParseStrings :
           \/ \E inst \in ParseInstances :
                  call = [fn |-> "parse_pair", T |-> inst[1], s |-> t,
                          separator |-> inst[2], done |-> FALSE, result |-> None]
           \/ call = [fn |-> "parse_complex", s |-> t, done |-> FALSE, result |-> None]

ApplyParsePair ==
    \E m \in ParsePairTable :
        /\ call.fn = "parse_pair"
        /\ ~call.done
        /\ m.call = <<call.T, call.s, call.separator>>
        /\ call' = [call EXCEPT !.done = TRUE, !.result = m.value]
        /\ UNCHANGED <<main, pc, tasks, wrote, image>>

ApplyParseComplex ==
    \E m \in ParseComplexTable :
        /\ call.fn = "parse_complex"
        /\ ~call.done
        /\ m.call = call.s
        /\ call' = [call EXCEPT !.done = TRUE, !.result = m.value]
        /\ UNCHANGED <<main, pc, tasks, wrote, image>>

ParseNext == ApplyParsePair \/ ApplyParseComplex

SpecParse == ParseInit /\ [][ParseNext]_vars

\* the places (from 1) of the separator in s
SeparatorPlaces(s, separator) == {i \in 1..Len(s) : s[i] = separator}

FirstPlace(s, separator) ==
    CHOOSE i \in SeparatorPlaces(s, separator) :
        \A j \in SeparatorPlaces(s, separator) : i <= j

\* C7: parse_pair gives a pair exactly when s holds the separator and the text
\* before its first occurrence and all the text after it both parse as T, and
\* the pair is those two values; it gives None when the separator is absent,
\* when s starts or ends with it, and on "10,20x".  parse_complex gives None
\* exactly when parse_pair::<f64>(s, ',') does, and else its pair as re, im.
C7_ParsePair ==
    /\ (call.fn = "parse_pair" /\ call.done) =>
           LET s == call.s
               places == SeparatorPlaces(s, call.separator)
               i == FirstPlace(s, call.separator)
               before == from_str(call.T, SubSeq(s, 1, i - 1))
               after == from_str(call.T, SubSeq(s, i + 1, Len(s)))
           IN  /\ call.result.some <=> (places # {} /\ before.some /\ after.some)
               /\ call.result.some => call.result.val = <<before.val, after.val>>
               /\ places = {} => ~call.result.some
               /\ (s # << >> /\ (s[1] = call.separator \/ s[Len(s)] = call.separator))
                      => ~call.result.some
               /\ s = <<"1", "0", ",", "2", "0", "x">> => ~call.result.some
               /\ (s = <<"1", "0", ",", "2", "0">> /\ call.T = "i32")
                      => call.result = Some(<<10, 20>>)
    /\ (call.fn = "parse_complex" /\ call.done) =>
           LET pair == parse_pair("f64", call.s, ",")
           IN  /\ call.result.some <=> pair.some
               /\ call.result.some =>
                      call.result.val = Complex(pair.val[1], pair.val[2])

C7_Witness ==
    /\ call.fn = "parse_pair"
    /\ call.done
    /\ call.T = "usize"
    /\ call.s = <<"1", "1", "x", "1">>
    /\ call.result = Some(<<11, 1>>)

(* escape_time and the byte render stores *)
MaxLimit == 8

\* points c, in millionths: 0, -1, -2, i, 1, 2, 3, 0.5, 0.3, 0.26, 0.251,
\* 0.250149, 0.25, -1.9 + 0.1i, -1.7 + 0.1i, -1.5 + 0.1i, -1.3 + 0.2i,
\* -0.75 + 0.1i; then a NaN and an infinity
EscapePoints ==
    {Point(q[1], q[2], 1000000) :
        q \in {<<0, 0>>, <<-1000000, 0>>, <<-2000000, 0>>, <<0, 1000000>>,
                <<1000000, 0>>, <<2000000, 0>>, <<3000000, 0>>, <<500000, 0>>,
                <<300000, 0>>, <<260000, 0>>, <<251000, 0>>, <<250149, 0>>,
                <<250000, 0>>, <<-1900000, 100000>>, <<-1700000, 100000>>,
                <<-1500000, 100000>>, <<-1300000, 200000>>, <<-750000, 100000>>}}
    \cup {Complex(FNaN, FZero(0)), Complex(FInf(0), FZero(0))}

\* the calls of escape_time, each with its value
EscapeTimeTable ==
    {[call |-> <<c, limit>>, value |-> escape_time(c, limit)] :
        c \in EscapePoints, limit \in (0..MaxLimit) \cup {IterLimit}}

EscapeInit ==
    /\ NoMain
    /\ \E c \in EscapePoints :
           \/ \E limit \in 0..MaxLimit :
                  call = [fn |-> "escape_time", c |-> c, limit |-> limit,
                          done |-> FALSE, result |-> None]
           \/ call = [fn |-> "render", c |-> c,
                      done |-> FALSE, time |-> None, result |-> 0]

ApplyEscapeTime ==
    \E m \in EscapeTimeTable :
        /\ call.fn = "escape_time"
        /\ ~call.done
        /\ m.call = <<call.c, call.limit>>
        /\ call' = [call EXCEPT !.done = TRUE, !.result = m.value]
        /\ UNCHANGED <<main, pc, tasks, wrote, image>>

\* the body of render's loops for a point: the match on escape_time(point, 255)
ApplyRenderMatch ==
    \E m \in EscapeTimeTable :
        /\ call.fn = "render"
        /\ ~call.done
        /\ m.call = <<call.c, IterLimit>>
        /\ call' = [call EXCEPT !.done = TRUE, !.time = m.value,
                                !.result = Shade(m.value)]
        /\ UNCHANGED <<main, pc, tasks, wrote, image>>

EscapeNext == ApplyEscapeTime \/ ApplyRenderMatch

SpecEscape == EscapeInit /\ [][EscapeNext]_vars

\* C10: escape_time(c, limit) is None or Some(i) with 0 <= i < limit, and None
\* when limit is 0; render stores 0 for None and 255 - i for Some(i), where i
\* fits a u8 and the byte is in 1..255.
C10_EscapeByte ==
    /\ (call.fn = "escape_time" /\ call.done) =>
           /\ call.result.some => (0 <= call.result.val /\ call.result.val < call.limit)
           /\ call.limit = 0 => ~call.result.some
    /\ (call.fn = "render" /\ call.done) =>
           /\ ~call.time.some => call.result = 0
           /\ call.time.some =>
                  /\ 0 <= call.time.val /\ call.time.val < IterLimit
                  /\ call.time.val <= U8Max
                  /\ call.result = U8Max - call.time.val
                  /\ 1 <= call.result /\ call.result <= U8Max

C10_Witness ==
    /\ call.fn = "render"
    /\ call.done
    /\ call.time = Some(IterLimit - 1)
    /\ call.result = 1
====
